---- MODULE Spec2Model ----
(***************************************************************************)
(* A model of wikitextlib.py: the escape stripper, the marker scanner, the *)
(* link and template span matchers, the template argument parser, the      *)
(* template serializer and the heading and section operations.  Texts are *)
(* sequences of one-character strings and offsets are 0-based, as in the   *)
(* Python source.                                                          *)
(***************************************************************************)
EXTENDS Integers, Sequences, FiniteSets, TLC

VARIABLES pc, op, text, replace_function, name, args, num_first, result,
          arg_level, arg_heading, top, frame

vars == <<pc, op, text, replace_function, name, args, num_first, result,
          arg_level, arg_heading, top, frame>>

(***************************************************************************)
(* Bounds of the input sets.                                               *)
(***************************************************************************)
MaxScanLen == 4
MaxInnerLen == 5
MaxArgs == 3

(***************************************************************************)
(* Markers.                                                                *)
(***************************************************************************)
LB == <<"{", "{">>
RB == <<"}", "}">>
LL == <<"[", "[">>
RR == <<"]", "]">>
Pipe == <<"|">>
Eq == <<"=">>
CommentOpen == <<"<", "!", "-", "-">>
CommentClose == <<"-", "-", ">">>
NowikiOpen == <<"<", "n", "o", "w", "i", "k", "i", ">">>
NowikiClose == <<"<", "/", "n", "o", "w", "i", "k", "i", ">">>

MAXIMUM_HEADING_LEVEL == 6

(***************************************************************************)
(* Python string primitives.                                               *)
(***************************************************************************)
Min2(a, b) == IF a < b THEN a ELSE b
Max2(a, b) == IF a > b THEN a ELSE b
SetMin(S) == CHOOSE x \in S : \A y \in S : x <= y

\* s[a:b] for a >= 0 (b may be negative: counted from the end)
Slice(s, a, b) ==
    LET e == IF b < 0 THEN Max2(Len(s) + b, 0) ELSE Min2(b, Len(s))
    IN  IF a >= e THEN <<>> ELSE SubSeq(s, a + 1, e)

\* whether needle occurs in haystack at offset i
MatchAt(haystack, needle, i) ==
    /\ i >= 0
    /\ i + Len(needle) <= Len(haystack)
    /\ \A k \in 1..Len(needle) : haystack[i + k] = needle[k]

StartsWith(s, p) == MatchAt(s, p, 0)
EndsWith(s, p) == MatchAt(s, p, Len(s) - Len(p))
Contains(s, c) == \E i \in 1..Len(s) : s[i] = c

\* str.find(needle, start)
Find(haystack, needle, start) ==
    LET hits == {i \in start..Len(haystack) : MatchAt(haystack, needle, i)}
    IN  IF hits = {} THEN -1 ELSE SetMin(hits)

\* faulty variant of SafeFind: the offset of the needle, never the offset
\* after it
SafeFindStart(haystack, needle, start, end) ==
    LET f == Find(haystack, needle, start)
    IN  IF f < 0 THEN Len(haystack) ELSE f

SafeFind(haystack, needle, start, end) ==
    LET f == Find(haystack, needle, start)
    IN  IF f < 0 THEN Len(haystack)
        ELSE IF end THEN f + Len(needle) ELSE f

NoMatch == [found |-> FALSE, pos |-> 0, m |-> <<>>]

\* the first match of any needle at or after index; at one offset the
\* alternation takes the first needle of the list that matches
MinFind(haystack, needles, index) ==
    LET hits == {i \in index..Len(haystack) :
                    \E k \in 1..Len(needles) : MatchAt(haystack, needles[k], i)}
    IN  IF hits = {} THEN NoMatch
        ELSE LET p == SetMin(hits)
                 k == SetMin({j \in 1..Len(needles) : MatchAt(haystack, needles[j], p)})
             IN  [found |-> TRUE, pos |-> p, m |-> needles[k]]

IsSpace(c) == c \in {" ", "\t", "\n", "\r"}

RECURSIVE LStrip(_)
LStrip(s) == IF s # <<>> /\ IsSpace(s[1]) THEN LStrip(Tail(s)) ELSE s

RECURSIVE RStrip(_)
RStrip(s) ==
    IF s # <<>> /\ IsSpace(s[Len(s)]) THEN RStrip(SubSeq(s, 1, Len(s) - 1)) ELSE s

Strip(s) == RStrip(LStrip(s))

\* str.split(sep) for a one-character separator: the list of pieces
RECURSIVE Split(_, _)
Split(s, sep) ==
    LET hits == {i \in 1..Len(s) : s[i] = sep}
    IN  IF hits = {} THEN <<s>>
        ELSE LET i == SetMin(hits)
             IN  <<SubSeq(s, 1, i - 1)>> \o Split(SubSeq(s, i + 1, Len(s)), sep)

\* sep.join(pieces)
RECURSIVE Join(_, _)
Join(pieces, sep) ==
    IF pieces = <<>> THEN <<>>
    ELSE IF Len(pieces) = 1 THEN pieces[1]
    ELSE pieces[1] \o sep \o Join(Tail(pieces), sep)

(***************************************************************************)
(* Escape stripper.                                                        *)
(***************************************************************************)
RECURSIVE RemoveExtraLoop(_, _, _)
RemoveExtraLoop(t, lookstart, res) ==
    IF lookstart < Len(t)
    THEN LET fd == MinFind(t, <<CommentOpen, NowikiOpen>>, lookstart)
         IN  IF fd.found
             THEN LET after == fd.pos + Len(fd.m)
                      next == IF fd.m = CommentOpen
                              THEN SafeFind(t, CommentClose, after, TRUE)
                              ELSE SafeFind(t, NowikiClose, after, TRUE)
                  IN  RemoveExtraLoop(t, next, res \o Slice(t, lookstart, fd.pos))
             ELSE res \o Slice(t, lookstart, Len(t))
    ELSE res \o Slice(t, lookstart, Len(t))

RemoveExtra(t) == RemoveExtraLoop(t, 0, <<>>)

(***************************************************************************)
(* Values produced by the parsers.                                         *)
(***************************************************************************)
NoneValue == [kind |-> "None"]
Heading(level, t) == [kind |-> "Heading", level |-> level, text |-> t]
InternalLink(target, t) == [kind |-> "InternalLink", target |-> target, text |-> t]
Template(src, nm, a) == [kind |-> "Template", src |-> src, name |-> nm, args |-> a]
TextItem(t) == [kind |-> "str", text |-> t]
Exception(type) == [kind |-> type]

\* argument keys: Python keeps the integer 2 and the string "2" apart
IntKey(n) == [t |-> "int", n |-> n, s |-> <<>>]
StrKey(s) == [t |-> "str", n |-> 0, s |-> s]

\* the outcome of running a function or of draining a generator
Returned(out) == [raised |-> "none", out |-> out]
Raised(type, out) == [raised |-> type, out |-> out]
Yield(items, rest) == [rest EXCEPT !.out = items \o @]

(***************************************************************************)
(* Headings.                                                               *)
(***************************************************************************)
RECURSIVE HeadingRun(_, _)
HeadingRun(t, eq) ==
    IF /\ eq < Min2(MAXIMUM_HEADING_LEVEL + 1, Len(t) \div 2)
       /\ t[eq + 1] = "="
       /\ t[Len(t) - eq] = "="
    THEN HeadingRun(t, eq + 1)
    ELSE eq

\* faulty variant of ParseHeading: the heading text is not trimmed
ParseHeadingUntrimmed(t) ==
    IF Contains(t, "\n") THEN NoneValue
    ELSE LET eq == HeadingRun(t, 0)
         IN  IF eq > 0
             THEN LET lv == Min2(eq, 6)
                  IN  Heading(lv, Slice(t, lv, 0 - lv))
             ELSE NoneValue

ParseHeading(t) ==
    IF Contains(t, "\n") THEN NoneValue
    ELSE LET eq == HeadingRun(t, 0)
         IN  IF eq > 0
             THEN LET lv == Min2(eq, 6)
                  IN  Heading(lv, Strip(Slice(t, lv, 0 - lv)))
             ELSE NoneValue

RECURSIVE ExtractHeadingsLoop(_, _)
ExtractHeadingsLoop(lines, leftover) ==
    LET flush == IF leftover # <<>> THEN <<TextItem(Join(leftover, <<"\n">>))>> ELSE <<>>
    IN  IF lines = <<>> THEN flush
        ELSE LET line_ == Head(lines)
                 line == IF line_ # <<>> /\ line_[Len(line_)] = "\r"
                         THEN SubSeq(line_, 1, Len(line_) - 1)
                         ELSE line_
                 heading == IF StartsWith(line, Eq) /\ EndsWith(line, Eq)
                            THEN ParseHeading(line)
                            ELSE NoneValue
             IN  IF heading.kind = "None"
                 THEN ExtractHeadingsLoop(Tail(lines), Append(leftover, line))
                 ELSE flush \o <<heading>> \o ExtractHeadingsLoop(Tail(lines), <<>>)

ExtractHeadings(t) == ExtractHeadingsLoop(Split(t, "\n"), <<>>)

(***************************************************************************)
(* Internal links.                                                         *)
(***************************************************************************)
ParseInternalLink(link) ==
    IF StartsWith(link, LL) \/ EndsWith(link, RR)
    THEN LET linki == Slice(link, 2, -2)
         IN  IF Contains(link, "|")
             THEN LET i == Find(linki, Pipe, 0)
                  IN  IF i < 0
                      THEN Exception("TypeError")   \* InternalLink(*[linki])
                      ELSE InternalLink(Slice(linki, 0, i), Slice(linki, i + 1, Len(linki)))
             ELSE InternalLink(linki, linki)
    ELSE NoneValue

\* the inner loop of _find_internal_links_raw: the offset the span ends at
RECURSIVE LinkSpanEnd(_, _, _)
LinkSpanEnd(t, lookstart, depth) ==
    IF depth > 0
    THEN LET fd == MinFind(t, <<LL, RR>>, lookstart)
         IN  IF fd.found
             THEN LinkSpanEnd(t, fd.pos + Len(fd.m), IF fd.m = LL THEN depth + 1 ELSE 0)
             ELSE lookstart
    ELSE lookstart

RECURSIVE FindInternalLinksRawFrom(_, _)
FindInternalLinksRawFrom(t, start) ==
    LET linkstart == Find(t, LL, start)
    IN  IF linkstart < 0 THEN <<>>
        ELSE LET linkend == LinkSpanEnd(t, linkstart + 2, 1)
             IN  (IF linkend > linkstart THEN << <<linkstart, linkend>> >> ELSE <<>>)
                 \o FindInternalLinksRawFrom(t, linkend)

FindInternalLinksRaw(t) == FindInternalLinksRawFrom(t, 0)

RECURSIVE FindInternalLinksOver(_, _)
FindInternalLinksOver(t, spans) ==
    IF spans = <<>> THEN Returned(<<>>)
    ELSE LET sp == Head(spans)
         IN  IF sp[2] > sp[1]
             THEN LET link == ParseInternalLink(Slice(t, sp[1], sp[2]))
                  IN  IF link.kind = "TypeError" THEN Raised("TypeError", <<>>)
                      ELSE Yield(<<link>>, FindInternalLinksOver(t, Tail(spans)))
             ELSE FindInternalLinksOver(t, Tail(spans))

FindInternalLinks(txt) ==
    LET t == RemoveExtra(txt)
    IN  FindInternalLinksOver(t, FindInternalLinksRaw(t \o <<" ">>))

(***************************************************************************)
(* Template argument parser.                                               *)
(***************************************************************************)
NoKey == [some |-> FALSE, s |-> <<>>]
SomeKey(s) == [some |-> TRUE, s |-> s]
Par(key, val) == [key |-> key, val |-> val]

\* faulty variant of ScanNeedles: the link depth is not consulted
ScanNeedlesIgnoringLinks(st) ==
    <<LB, RB, LL, RR>>
    \o (IF st.depth = 0 THEN <<Pipe>> ELSE <<>>)
    \o (IF st.depth = 0 /\ st.hadeq = 0 /\ st.pars # <<>> THEN <<Eq>> ELSE <<>>)

\* the markers the scan looks for in its current state
ScanNeedles(st) ==
    <<LB, RB, LL, RR>>
    \o (IF st.depth = 0 /\ st.linkdepth = 0 THEN <<Pipe>> ELSE <<>>)
    \o (IF st.depth = 0 /\ st.linkdepth = 0 /\ st.hadeq = 0 /\ st.pars # <<>>
        THEN <<Eq>> ELSE <<>>)

ScanInit ==
    [depth |-> 0, linkdepth |-> 0, lastpar |-> 0, findind |-> 0, hadeq |-> 0,
     pars |-> <<>>, thiskey |-> NoKey, seps |-> <<>>]

\* one iteration of the scan loop on a found marker; seps records every
\* marker taken as a separator: which, where, and after how many chunks
ScanStep(t, st, match) ==
    LET after == match.pos + Len(match.m)
        d == IF match.m = LB THEN st.depth + 1
             ELSE IF match.m = RB THEN st.depth - 1 ELSE st.depth
        ld == IF match.m = LL THEN st.linkdepth + 1
              ELSE IF match.m = RR THEN st.linkdepth - 1 ELSE st.linkdepth
        sep == [m |-> match.m, pos |-> match.pos, npars |-> Len(st.pars)]
    IN  IF match.m = Pipe
        THEN [st EXCEPT !.findind = after, !.depth = d, !.linkdepth = ld,
                        !.pars = Append(@, Par(st.thiskey, Slice(t, st.lastpar, match.pos))),
                        !.thiskey = NoKey, !.lastpar = after, !.hadeq = 0,
                        !.seps = Append(@, sep)]
        ELSE IF match.m = Eq
        THEN [st EXCEPT !.findind = after, !.depth = d, !.linkdepth = ld,
                        !.thiskey = SomeKey(Slice(t, st.lastpar, match.pos)),
                        !.lastpar = after, !.hadeq = 1,
                        !.seps = Append(@, sep)]
        ELSE [st EXCEPT !.findind = after, !.depth = d, !.linkdepth = ld]

RECURSIVE ScanLoop(_, _)
ScanLoop(t, st) ==
    LET match == MinFind(t, ScanNeedles(st), st.findind)
    IN  IF ~match.found
        THEN [st EXCEPT !.pars = Append(@, Par(st.thiskey, Slice(t, st.lastpar, Len(t))))]
        ELSE ScanLoop(t, ScanStep(t, st, match))

\* the chunks of the text between the braces: the name, then the arguments
ScanPars(t) == ScanLoop(t, ScanInit)

HasKey(d, k) == \E i \in 1..Len(d) : d[i].key = k
DictGet(d, k) == d[CHOOSE i \in 1..Len(d) : d[i].key = k].val
\* faulty variant of DictSet: a known key keeps its first value
DictSetKeepFirst(d, k, v) ==
    IF \E i \in 1..Len(d) : d[i].key = k THEN d ELSE Append(d, [key |-> k, val |-> v])

\* OrderedDict.__setitem__: a known key keeps its place
DictSet(d, k, v) ==
    IF HasKey(d, k)
    THEN [i \in 1..Len(d) |-> IF d[i].key = k THEN Par(k, v) ELSE d[i]]
    ELSE Append(d, Par(k, v))

Warning(k, v, old) == [key |-> k, new |-> v, old |-> old]

\* faulty variant of NamedKey: a key that reads as a number becomes the
\* integer key
NamedKeyCoerced(k) ==
    LET str == Strip(k)
        digits == <<"1", "2", "3", "4", "5", "6", "7", "8", "9">>
    IN  IF Len(str) = 1 /\ \E n \in 1..9 : digits[n] = str[1]
        THEN IntKey(CHOOSE n \in 1..9 : digits[n] = str[1])
        ELSE StrKey(str)

\* the key of a labeled argument: the stripped text, a string
NamedKey(k) == StrKey(Strip(k))

\* the loop over pars[1:]: the ordered dict, the positional counter and
\* the warnings given
RECURSIVE BuildArgs(_, _)
BuildArgs(pars, acc) ==
    IF pars = <<>> THEN acc
    ELSE LET p == Head(pars)
         IN  IF p.key.some
             THEN LET k == NamedKey(p.key.s)
                      v == Strip(p.val)
                  IN  BuildArgs(Tail(pars),
                        [acc EXCEPT
                           !.warnings = IF HasKey(acc.parsed, k)
                                        THEN Append(@, Warning(k, v, DictGet(acc.parsed, k)))
                                        ELSE @,
                           !.parsed = DictSet(@, k, v)])
             ELSE BuildArgs(Tail(pars),
                        [acc EXCEPT
                           !.parind = @ + 1,
                           !.parsed = DictSet(@, IntKey(acc.parind + 1), p.val)])

\* parse_template with the warnings it gives; pars and seps are the chunks
\* and the separators of the scan
ParseTemplateRun(rtext) ==
    IF ~(StartsWith(rtext, LB) /\ EndsWith(rtext, RB))
    THEN [value |-> NoneValue, warnings |-> <<>>, pars |-> <<>>, seps |-> <<>>]
    ELSE LET scan == ScanPars(Slice(rtext, 2, -2))
             pars == scan.pars
             built == BuildArgs(Tail(pars), [parsed |-> <<>>, parind |-> 0, warnings |-> <<>>])
         IN  [value |-> Template(rtext, Strip(pars[1].val), built.parsed),
              warnings |-> built.warnings, pars |-> pars, seps |-> scan.seps]

ParseTemplate(rtext) == ParseTemplateRun(rtext).value

ParseTemplate_(t) ==
    LET template == ParseTemplate(t)
    IN  IF template.kind = "None" THEN Exception("ValueError") ELSE template

(***************************************************************************)
(* Template spans and the operations over them.                            *)
(***************************************************************************)
\* the inner loop of _find_templates_raw: the offset the span ends at
RECURSIVE TemplateSpanEnd(_, _, _)
TemplateSpanEnd(t, lookstart, depth) ==
    IF depth > 0
    THEN LET fd == MinFind(t, <<LB, RB>>, lookstart)
         IN  IF fd.found
             THEN TemplateSpanEnd(t, fd.pos + Len(fd.m),
                                  IF fd.m = LB THEN depth + 1 ELSE depth - 1)
             ELSE lookstart
    ELSE lookstart

RECURSIVE FindTemplatesRawFrom(_, _)
FindTemplatesRawFrom(t, start) ==
    LET tempstart == Find(t, LB, start)
    IN  IF tempstart < 0 THEN <<>>
        ELSE LET tempend == TemplateSpanEnd(t, tempstart + 2, 1)
             IN  (IF tempend > tempstart THEN << <<tempstart, tempend>> >> ELSE <<>>)
                 \o FindTemplatesRawFrom(t, tempend)

FindTemplatesRaw(t) == FindTemplatesRawFrom(t, 0)

RECURSIVE FindTemplatesOver(_, _)
FindTemplatesOver(t, spans) ==
    IF spans = <<>> THEN Returned(<<>>)
    ELSE LET sp == Head(spans)
         IN  IF sp[2] > sp[1] + 2
             THEN LET template == ParseTemplate_(Slice(t, sp[1], sp[2]))
                  IN  IF template.kind = "ValueError" THEN Raised("ValueError", <<>>)
                      ELSE Yield(<<template>>, FindTemplatesOver(t, Tail(spans)))
             ELSE FindTemplatesOver(t, Tail(spans))

FindTemplates(txt) ==
    LET t == RemoveExtra(txt)
    IN  FindTemplatesOver(t, FindTemplatesRaw(t \o <<" ">>))

\* what the caller's replace_function returns: a string, None or ...
ReplaceFunctions == {"str", "None", "Ellipsis"}
Replacement(rf, template) ==
    IF rf = "Ellipsis" THEN template.src
    ELSE IF rf = "None" THEN <<>>
    ELSE <<"X">>

RECURSIVE ReplaceTemplatesOver(_, _, _, _)
ReplaceTemplatesOver(t, spans, i, rf) ==
    IF spans = <<>> THEN Returned(Slice(t, i, Len(t)))
    ELSE LET sp == Head(spans)
         IN  IF sp[2] > sp[1] + 2
             THEN LET template == ParseTemplate_(Slice(t, sp[1], sp[2]))
                  IN  IF template.kind = "ValueError" THEN Raised("ValueError", <<>>)
                      ELSE Yield(Slice(t, i, sp[1]) \o Replacement(rf, template),
                                 ReplaceTemplatesOver(t, Tail(spans), sp[2], rf))
             ELSE ReplaceTemplatesOver(t, Tail(spans), i, rf)

ReplaceTemplates(txt, rf) ==
    LET t == RemoveExtra(txt)
    IN  ReplaceTemplatesOver(t, FindTemplatesRaw(t \o <<" ">>), 0, rf)

(***************************************************************************)
(* Unified tokenizer.                                                      *)
(***************************************************************************)
\* the link loop of parse_wikitext
RECURSIVE WikitextLinkEnd(_, _, _)
WikitextLinkEnd(t, lookstart, depth) ==
    IF depth > 0
    THEN LET fd == MinFind(t, <<LL, RR>>, lookstart)
         IN  IF fd.found
             THEN WikitextLinkEnd(t, fd.pos + Len(fd.m), IF fd.m = LL THEN depth + 1 ELSE 0)
             ELSE lookstart
    ELSE lookstart

\* the template loop of parse_wikitext
RECURSIVE WikitextTemplateEnd(_, _, _)
WikitextTemplateEnd(t, lookstart, depth) ==
    IF depth > 0
    THEN LET fd == MinFind(t, <<LB, RB>>, lookstart)
         IN  IF fd.found
             THEN WikitextTemplateEnd(t, fd.pos + Len(fd.m),
                                      IF fd.m = LB THEN depth + 1 ELSE depth - 1)
             ELSE lookstart
    ELSE lookstart

RECURSIVE ParseWikitextLoop(_, _, _)
ParseWikitextLoop(t, start, textstart) ==
    LET specialstart == MinFind(t, <<LL, LB>>, start)
    IN  IF ~specialstart.found
        THEN Returned(IF textstart < Len(t)
                      THEN ExtractHeadings(Slice(t, textstart, Len(t)))
                      ELSE <<>>)
        ELSE LET before == IF specialstart.pos > textstart
                           THEN ExtractHeadings(Slice(t, textstart, specialstart.pos))
                           ELSE <<>>
                 lookstart == specialstart.pos + Len(specialstart.m)
             IN  IF specialstart.m = LL
                 THEN LET linkend == WikitextLinkEnd(t, lookstart, 1)
                          link == ParseInternalLink(Slice(t, specialstart.pos, linkend))
                      IN  IF linkend > specialstart.pos
                          THEN IF link.kind = "TypeError"
                               THEN Raised("TypeError", before)
                               ELSE Yield(before \o <<link>>,
                                          ParseWikitextLoop(t, linkend, linkend))
                          ELSE Yield(before, ParseWikitextLoop(t, linkend, linkend))
                 ELSE LET tempend == WikitextTemplateEnd(t, lookstart, 1)
                          template == ParseTemplate_(Slice(t, specialstart.pos, tempend))
                      IN  IF tempend > specialstart.pos
                          THEN IF template.kind = "ValueError"
                               THEN Raised("ValueError", before)
                               ELSE Yield(before \o <<template>>,
                                          ParseWikitextLoop(t, tempend, tempend))
                          ELSE Yield(before, ParseWikitextLoop(t, tempend, tempend))

ParseWikitext(txt) == ParseWikitextLoop(RemoveExtra(txt), 0, 0)

(***************************************************************************)
(* Template serializer.                                                    *)
(***************************************************************************)
IsInt(key) == key.t = "int"
IsStr(key) == key.t = "str"

\* the values of the integer-keyed entries by ascending key, keeping the
\* order of the list between equal keys
RECURSIVE SortedNumArgs(_)
SortedNumArgs(a) ==
    IF a = <<>> THEN <<>>
    ELSE LET least == SetMin({a[i].key.n : i \in 1..Len(a)})
             first == SetMin({i \in 1..Len(a) : a[i].key.n = least})
         IN  <<a[first].val>>
             \o SortedNumArgs([i \in 1..(Len(a) - 1) |-> IF i < first THEN a[i] ELSE a[i + 1]])

\* sorted(args, key=lambda t: t[0]) compares the keys with "<", which
\* Python does not define between an int and a str
SortRaises(a) ==
    /\ \E i \in 1..Len(a) : IsInt(a[i].key)
    /\ \E i \in 1..Len(a) : IsStr(a[i].key)

RECURSIVE Concat(_)
Concat(pieces) == IF pieces = <<>> THEN <<>> ELSE Head(pieces) \o Concat(Tail(pieces))

\* faulty variant of NonPosArg: the value is left out
NonPosArgNoValue(key, value) == Pipe \o key \o Eq

PosArg(value) == Pipe \o value
NonPosArg(key, value) == Pipe \o key \o Eq \o value

MakeNumFirst(nm, a) ==
    IF SortRaises(a) THEN Raised("TypeError", <<>>)
    ELSE LET numargs == SortedNumArgs(SelectSeq(a, LAMBDA e : IsInt(e.key)))
             posargs == [i \in 1..Len(numargs) |-> PosArg(numargs[i])]
             named == SelectSeq(a, LAMBDA e : IsStr(e.key))
             nonposargs == [i \in 1..Len(named) |-> NonPosArg(named[i].key.s, named[i].val)]
         IN  Returned(LB \o nm \o Concat(posargs) \o Concat(nonposargs) \o RB)

\* faulty variant of NumberedArg: the value is trimmed
NumberedArgStripped(value) == Pipe \o Strip(value)

\* what the interleaved emission appends for a named and a numbered entry
NamedArg(key, value) == Pipe \o key \o Eq \o value
NumberedArg(value) == Pipe \o value

\* one run of the for loop over args, from entry i
RECURSIVE EmitLoop(_, _, _, _)
EmitLoop(a, i, argstr, argindx) ==
    IF i > Len(a) THEN [pathological |-> FALSE, argstr |-> argstr]
    ELSE LET key == a[i].key
             value == a[i].val
         IN  IF IsStr(key)
             THEN EmitLoop(a, i + 1, argstr \o NamedArg(key.s, value), argindx)
             ELSE IF key.n > argindx
             THEN EmitLoop(a, i + 1, argstr \o NumberedArg(value), key.n)
             ELSE IF key.n < argindx
             THEN [pathological |-> TRUE, argstr |-> argstr]
             ELSE EmitLoop(a, i + 1, argstr, argindx)

\* faulty variant of Resolve: the lookup never finds the key
ResolveMissing(a, j) == <<>>

\* dict(args).get(j, ""): the value of the last entry with the integer key j
Resolve(a, j) ==
    LET hits == {i \in 1..Len(a) : a[i].key = IntKey(j)}
    IN  IF hits = {} THEN <<>> ELSE a[CHOOSE i \in hits : \A h \in hits : h <= i].val

\* the rebuilt argument list
RECURSIVE ReconcileLoop(_, _, _, _)
ReconcileLoop(argsorig, i, skip, acc) ==
    IF i > Len(argsorig) THEN acc
    ELSE LET key == argsorig[i].key
             value == argsorig[i].val
         IN  IF IsStr(key)
             THEN ReconcileLoop(argsorig, i + 1, skip, Append(acc, Par(key, value)))
             ELSE IF key.n <= skip
             THEN ReconcileLoop(argsorig, i + 1, skip, acc)
             ELSE ReconcileLoop(argsorig, i + 1, key.n,
                    acc \o [j \in 1..(key.n - skip) |->
                               Par(IntKey(skip + j - 1), Resolve(argsorig, skip + j - 1))]
                        \o <<Par(key, value)>>)

\* faulty variant of Reconcile: the argument list is left as it was
ReconcileUnchanged(argsorig) == argsorig

Reconcile(argsorig) == ReconcileLoop(argsorig, 1, 1, <<>>)

\* the while loop: emission, restarted after each reconciliation
RECURSIVE MakeInterleaved(_, _)
MakeInterleaved(a, passes) ==
    LET run == EmitLoop(a, 1, <<>>, 0)
    IN  IF run.pathological THEN MakeInterleaved(Reconcile(a), passes + 1)
        ELSE [argstr |-> run.argstr, reconciliations |-> passes]

MakeTemplate(nm, a, numfirst) ==
    IF numfirst THEN MakeNumFirst(nm, a)
    ELSE Returned(LB \o nm \o MakeInterleaved(a, 0).argstr \o RB)

(***************************************************************************)
(* Bounded input sets.                                                     *)
(***************************************************************************)
Strings(alphabet, n) == UNION {[1..k -> alphabet] : k \in 0..n}

ScanAlphabet == {"[", "]", "{", "}", "|", "a"}

NestedLinkText == <<"[", "[", "A", "|", "[", "[", "B", "]", "]", "]", "]">>
LinkInTemplateText == <<"{", "{", "t", "|", "[", "[", "a", "|", "b", "]", "]", "}", "}">>

ScanExamples ==
    { NestedLinkText,
      LinkInTemplateText,
      <<"{", "{", "a", "{", "{", "b">>,
      <<"[", "[", "a", "]", "]", "x", "{", "{", "t", "|", "k", "=", "v", "}", "}">>,
      <<"=", "=", "H", "=", "=", "\n", "x", "\r", "\n", "[", "[", "a", "]", "]", "y">>,
      <<"a", "<", "!", "-", "-", "[", "[", "-", "-", ">", "{", "{", "b", "}", "}">> }

ScanTexts == Strings(ScanAlphabet, MaxScanLen) \cup ScanExamples

(***************************************************************************)
(* The scanning operations applied to one text.                            *)
(***************************************************************************)
NoResult == Returned(<<>>)

\* no heading arguments given, and no call of make_template in progress
NoFrame == [kind |-> "None"]
NoHeadingArguments ==
    /\ arg_level = 0
    /\ arg_heading = <<>>
    /\ top = FALSE

Init ==
    /\ pc = "start"
    /\ op = "none"
    /\ text \in ScanTexts
    /\ replace_function = "none"
    /\ name = <<>>
    /\ args = <<>>
    /\ num_first = FALSE
    /\ result = NoResult
    /\ NoHeadingArguments
    /\ frame = NoFrame

Call(fn, res) ==
    /\ pc = "start"
    /\ pc' = "done"
    /\ op' = fn
    /\ result' = res
    /\ UNCHANGED <<text, name, args, num_first, arg_level, arg_heading, top, frame>>

DoParseWikitext ==
    /\ Call("parse_wikitext", ParseWikitext(text))
    /\ UNCHANGED replace_function

DoFindTemplates ==
    /\ Call("find_templates", FindTemplates(text))
    /\ UNCHANGED replace_function

DoReplaceTemplates ==
    \E rf \in ReplaceFunctions :
        /\ Call("replace_templates", ReplaceTemplates(text, rf))
        /\ replace_function' = rf

DoFindInternalLinks ==
    /\ Call("find_internal_links", FindInternalLinks(text))
    /\ UNCHANGED replace_function

DoFindInternalLinksRaw ==
    /\ Call("_find_internal_links_raw", Returned(FindInternalLinksRaw(text)))
    /\ UNCHANGED replace_function

DoFindTemplatesRaw ==
    /\ Call("_find_templates_raw", Returned(FindTemplatesRaw(text)))
    /\ UNCHANGED replace_function

Next ==
    \/ DoParseWikitext
    \/ DoFindTemplates
    \/ DoReplaceTemplates
    \/ DoFindInternalLinks
    \/ DoFindInternalLinksRaw
    \/ DoFindTemplatesRaw

Spec == Init /\ [][Next]_vars

(***************************************************************************)
(* Properties of the scanning operations.                                  *)
(***************************************************************************)
\* the offset just after the closer that brings a balanced count from
\* depth back to 0, or -1 when the count never returns to 0
RECURSIVE BalancedClose(_, _, _, _, _)
BalancedClose(t, opener, closer, from, depth) ==
    LET fd == MinFind(t, <<opener, closer>>, from)
    IN  IF ~fd.found THEN -1
        ELSE IF fd.m = opener
             THEN BalancedClose(t, opener, closer, fd.pos + 2, depth + 1)
        ELSE IF depth = 1 THEN fd.pos + 2
        ELSE BalancedClose(t, opener, closer, fd.pos + 2, depth - 1)

PublicScans == {"parse_wikitext", "find_templates", "replace_templates", "find_internal_links"}

\* C1: malformed input never raises: parse_wikitext, find_templates,
\* replace_templates and find_internal_links run to completion on every
\* text, unclosed openers included.
C1_NeverRaises ==
    (pc = "done" /\ op \in PublicScans) => result.raised = "none"

\* C2: link spans are matched by balanced counting, so a span ends just
\* after the "]]" that brings the depth back to 0, and the link found in
\* [[A|[[B]]]] is the whole text, with target A and text [[B]].
C2_BalancedLinkSpan ==
    /\ (pc = "done" /\ op = "_find_internal_links_raw") =>
          \A i \in 1..Len(result.out) :
              LET close == BalancedClose(text, LL, RR, result.out[i][1] + 2, 1)
              IN  close >= 0 => result.out[i][2] = close
    /\ (pc = "done" /\ op = "find_internal_links" /\ text = NestedLinkText) =>
          result.out = <<InternalLink(<<"A">>, <<"[", "[", "B", "]", "]">>)>>

\* C3: the span of an opener that is never closed extends to the end of
\* the text: the end offset returned equals the length of the text.
C3_UnclosedSpanToEnd ==
    /\ (pc = "done" /\ op = "_find_internal_links_raw") =>
          \A i \in 1..Len(result.out) :
              Find(text, RR, result.out[i][1] + 2) < 0 => result.out[i][2] = Len(text)
    /\ (pc = "done" /\ op = "_find_templates_raw") =>
          \A i \in 1..Len(result.out) :
              Find(text, RB, result.out[i][1] + 2) < 0 => result.out[i][2] = Len(text)

(***************************************************************************)
(* parse_template applied to one text.                                     *)
(***************************************************************************)
TemplateAlphabet == {"|", "=", "a", " ", "[", "]", "{", "}"}

DuplicateKeyText == <<"{", "{", "t", "|", "x", "=", "1", "|", "x", "=", "2", "}", "}">>
NumericKeyText == <<"{", "{", "t", "|", "2", "=", "v", "|", "a", "|", "b", "}", "}">>
UnmatchedCloserText ==
    <<"{", "{", "t", "]", "]", "|", "[", "[", "a", "|", "b", "]", "]", "}", "}">>

TemplateExamples ==
    { LinkInTemplateText,
      DuplicateKeyText,
      NumericKeyText,
      UnmatchedCloserText,
      <<"{", "{", "a">>,
      <<"{", "{", "t", "|", " ", "a", " ", "|", " ", "k", " ", "=", " ", "v", " ", "}", "}">>,
      <<"{", "{", "t", "|", "{", "{", "u", "|", "x", "=", "1", "}", "}", "|",
        "y", "=", "{", "{", "v", "|", "z", "}", "}", "}", "}">>,
      <<"{", "{", "t", "|", "x", "=", "1", "|", "b", "|", " ", "x", "=", "2", "|",
        "x", " ", "=", "3", "|", "c", "}", "}">> }

TemplateTexts ==
    {LB \o inner \o RB : inner \in Strings(TemplateAlphabet, MaxInnerLen)}
    \cup TemplateExamples

InitTemplate ==
    /\ pc = "start"
    /\ op = "none"
    /\ text \in TemplateTexts
    /\ replace_function = "none"
    /\ name = <<>>
    /\ args = <<>>
    /\ num_first = FALSE
    /\ result = NoResult
    /\ NoHeadingArguments
    /\ frame = NoFrame

DoParseTemplate ==
    /\ Call("parse_template", Returned(ParseTemplateRun(text)))
    /\ UNCHANGED replace_function

NextTemplate == DoParseTemplate

SpecTemplate == InitTemplate /\ [][NextTemplate]_vars

(***************************************************************************)
(* Properties of parse_template.                                           *)
(***************************************************************************)
Parsed == pc = "done" /\ op = "parse_template" /\ result.out.value.kind = "Template"

\* the bracket markers of a text, left to right
RECURSIVE BracketTokens(_, _)
BracketTokens(t, from) ==
    LET fd == MinFind(t, <<LB, RB, LL, RR>>, from)
    IN  IF ~fd.found THEN <<>>
        ELSE <<[pos |-> fd.pos, m |-> fd.m]>> \o BracketTokens(t, fd.pos + 2)

\* openers minus closers among the first k bracket markers
RECURSIVE DepthAfter(_, _, _, _)
DepthAfter(toks, k, opener, closer) ==
    IF k = 0 THEN 0
    ELSE DepthAfter(toks, k - 1, opener, closer)
         + (IF toks[k].m = opener THEN 1 ELSE IF toks[k].m = closer THEN -1 ELSE 0)

TokensBefore(toks, p) == Cardinality({k \in 1..Len(toks) : toks[k].pos < p})

DepthAt(t, p, opener, closer) ==
    LET toks == BracketTokens(t, 0)
    IN  DepthAfter(toks, TokensBefore(toks, p), opener, closer)

\* offset p lies between an opener and the closer that matches it
InsideNested(t, p, opener, closer) ==
    LET toks == BracketTokens(t, 0)
        D(k) == DepthAfter(toks, k, opener, closer)
    IN  \E a \in 1..Len(toks) :
          /\ toks[a].m = opener
          /\ toks[a].pos < p
          /\ \E b \in (a + 1)..Len(toks) :
                /\ toks[b].m = closer
                /\ toks[b].pos > p
                /\ D(b) = D(a - 1)
                /\ \A c \in a..(b - 1) : D(c) > D(a - 1)

\* no "}}" or "]]" before offset p lacks an opener before it
NoUnmatchedCloserBefore(t, p) ==
    LET toks == BracketTokens(t, 0)
    IN  \A k \in 1..TokensBefore(toks, p) :
          /\ DepthAfter(toks, k, LB, RB) >= 0
          /\ DepthAfter(toks, k, LL, RR) >= 0

SeparatorsAtDepthZero(inner, seps) ==
    \A i \in 1..Len(seps) :
        /\ DepthAt(inner, seps[i].pos, LB, RB) = 0
        /\ DepthAt(inner, seps[i].pos, LL, RR) = 0

EqualsOncePerArgument(seps) ==
    \A i \in 1..Len(seps) :
        seps[i].m = Eq =>
            /\ seps[i].npars >= 1
            /\ \A j \in 1..Len(seps) :
                  (j # i /\ seps[j].m = Eq) => seps[j].npars # seps[i].npars

OneLinkArgument == <<Par(IntKey(1), <<"[", "[", "a", "|", "b", "]", "]">>)>>

\* C4 (as stated): "|" and "=" are separators only at brace depth 0 and
\* link depth 0, "=" at most once per argument and never in the name chunk;
\* consequently no "|" or "=" inside a nested [[...]] or {{...}} is a
\* separator, and {{t|[[a|b]]}} has the one argument 1 = [[a|b]].
C4_NoSeparatorInsideNested ==
    Parsed =>
        LET inner == Slice(text, 2, -2)
            seps == result.out.seps
        IN  /\ SeparatorsAtDepthZero(inner, seps)
            /\ EqualsOncePerArgument(seps)
            /\ \A i \in 1..Len(seps) :
                  /\ ~InsideNested(inner, seps[i].pos, LB, RB)
                  /\ ~InsideNested(inner, seps[i].pos, LL, RR)
            /\ text = LinkInTemplateText => result.out.value.args = OneLinkArgument

\* C4 (amended): "|" and "=" are separators only at brace depth 0 and link
\* depth 0, "=" at most once per argument and never in the name chunk; a
\* "|" or "=" inside a nested [[...]] or {{...}} is no separator provided
\* no unmatched "}}" or "]]" precedes it, and {{t|[[a|b]]}} has the one
\* argument 1 = [[a|b]].
C4_SeparatorsAtDepthZero ==
    Parsed =>
        LET inner == Slice(text, 2, -2)
            seps == result.out.seps
        IN  /\ SeparatorsAtDepthZero(inner, seps)
            /\ EqualsOncePerArgument(seps)
            /\ \A i \in 1..Len(seps) :
                  NoUnmatchedCloserBefore(inner, seps[i].pos) =>
                      /\ ~InsideNested(inner, seps[i].pos, LB, RB)
                      /\ ~InsideNested(inner, seps[i].pos, LL, RR)
            /\ text = LinkInTemplateText => result.out.value.args = OneLinkArgument

C4_Witness ==
    /\ Parsed
    /\ text = LinkInTemplateText
    /\ result.out.value.args = OneLinkArgument
    /\ Len(result.out.seps) = 1

\* the labeled chunks of an invocation, and the unlabeled ones
Labeled(pars) == {i \in 2..Len(pars) : pars[i].key.some}
Unlabeled(pars) == {i \in 2..Len(pars) : ~pars[i].key.some}
SameKey(pars, i, j) == Strip(pars[i].key.s) = Strip(pars[j].key.s)
\* chunk i repeats the key of an earlier labeled chunk
Overwrites(pars, i) == \E j \in Labeled(pars) : j < i /\ SameKey(pars, i, j)
LastOf(pars, i) ==
    CHOOSE j \in Labeled(pars) :
        /\ SameKey(pars, i, j)
        /\ \A k \in Labeled(pars) : SameKey(pars, i, k) => k <= j

\* the chunks that open an entry of args, in order
RECURSIVE Ascending(_)
Ascending(S) ==
    IF S = {} THEN <<>> ELSE <<SetMin(S)>> \o Ascending(S \ {SetMin(S)})
EntryChunks(pars) ==
    Ascending(Unlabeled(pars) \cup {i \in Labeled(pars) : ~Overwrites(pars, i)})

\* C5: a named key that occurs again is never rejected: args keeps one
\* entry for it, at the place of its first occurrence, with the value of
\* its last occurrence, and each overwriting occurrence gives exactly one
\* warning ({{t|x=1|x=2}} yields {x: "2"} and one warning).
C5_DuplicateKeyOverwrites ==
    Parsed =>
        LET pars == result.out.pars
            a == result.out.value.args
            entries == EntryChunks(pars)
        IN  /\ Len(a) = Len(entries)
            /\ \A n \in 1..Len(a) :
                  pars[entries[n]].key.some =>
                      /\ a[n].key = StrKey(Strip(pars[entries[n]].key.s))
                      /\ a[n].val = Strip(pars[LastOf(pars, entries[n])].val)
            /\ Len(result.out.warnings)
                  = Cardinality({i \in Labeled(pars) : Overwrites(pars, i)})

C5_Witness ==
    /\ Parsed
    /\ text = DuplicateKeyText
    /\ result.out.value.args = <<Par(StrKey(<<"x">>), <<"2">>)>>
    /\ Len(result.out.warnings) = 1

IsIntKey(k) == k.t = "int"
IntEntries(a) == SelectSeq(a, LAMBDA e : IsIntKey(e.key))

\* C6: the integer keys of args are exactly 1..m, m the number of
\* unlabeled chunks, given in order of occurrence whatever explicit numeric
\* keys there are; an explicit 2=value is kept under the string key "2",
\* beside the integer key 2.
C6_PositionalKeysDense ==
    Parsed =>
        LET pars == result.out.pars
            a == result.out.value.args
            unl == Ascending(Unlabeled(pars))
        IN  /\ IntEntries(a) = [n \in 1..Len(unl) |-> Par(IntKey(n), pars[unl[n]].val)]
            /\ \A i \in Labeled(pars) : HasKey(a, StrKey(Strip(pars[i].key.s)))
            /\ Len(a) = Len(unl) + Cardinality({Strip(pars[i].key.s) : i \in Labeled(pars)})

C6_Witness ==
    /\ Parsed
    /\ text = NumericKeyText
    /\ result.out.value.args
          = <<Par(StrKey(<<"2">>), <<"v">>), Par(IntKey(1), <<"a">>), Par(IntKey(2), <<"b">>)>>

(***************************************************************************)
(* make_template applied to an argument list, and its output parsed back.  *)
(***************************************************************************)
MakeNames == {<<"t">>, <<"t", "[", "[">>}
MakeKeys == {IntKey(1), IntKey(2), IntKey(3), StrKey(<<"x">>), StrKey(<<"y">>)}
MakeValues == {<<>>, <<"a">>, <<" ", "b">>, <<"|">>, <<"=">>}

\* the argument lists: entries with distinct keys
ArgLists ==
    {a \in UNION {[1..n -> [key : MakeKeys, val : MakeValues]] : n \in 0..MaxArgs} :
        \A i, j \in 1..Len(a) : i # j => a[i].key # a[j].key}

InitMake ==
    /\ pc = "start"
    /\ op = "none"
    /\ text = <<>>
    /\ replace_function = "none"
    /\ name \in MakeNames
    /\ args \in ArgLists
    /\ num_first = FALSE
    /\ result = NoResult
    /\ NoHeadingArguments
    /\ frame = NoFrame

DoMakeTemplate ==
    \E numfirst \in BOOLEAN :
        LET made == MakeTemplate(name, args, numfirst)
        IN  /\ pc = "start"
            /\ pc' = "made"
            /\ op' = "make_template"
            /\ num_first' = numfirst
            /\ result' = made
            /\ text' = IF made.raised = "none" THEN made.out ELSE <<>>
            /\ UNCHANGED <<replace_function, name, args, arg_level, arg_heading, top, frame>>

DoReparse ==
    /\ pc = "made"
    /\ result.raised = "none"
    /\ pc' = "done"
    /\ op' = "parse_template"
    /\ result' = Returned(ParseTemplateRun(text))
    /\ UNCHANGED <<text, replace_function, name, args, num_first,
                   arg_level, arg_heading, top, frame>>

NextMake ==
    \/ DoMakeTemplate
    \/ DoReparse

SpecMake == InitMake /\ [][NextMake]_vars

(***************************************************************************)
(* Properties of make_template followed by parse_template.                 *)
(***************************************************************************)
Made == pc = "made" /\ op = "make_template"
Reparsed == pc = "done" /\ op = "parse_template" /\ result.out.value.kind = "Template"

SetMax(S) == CHOOSE x \in S : \A y \in S : y <= x
Numbered(a) == SelectSeq(a, LAMBDA e : IsInt(e.key))
Named(a) == SelectSeq(a, LAMBDA e : IsStr(e.key))
IntKeysOf(a) == {a[i].key.n : i \in {j \in 1..Len(a) : IsInt(a[j].key)}}
\* the value given for the integer key k, the empty string if there is none
InputValue(a, k) ==
    IF \E i \in 1..Len(a) : a[i].key = IntKey(k)
    THEN a[CHOOSE i \in 1..Len(a) : a[i].key = IntKey(k)].val
    ELSE <<>>

\* some numbered entry follows one with a larger key
OutOfOrder(a) ==
    \E i \in 1..(Len(Numbered(a)) - 1) : Numbered(a)[i + 1].key.n < Numbered(a)[i].key.n
\* the keys are the integers 1..n, in this order
DenseInOrder(a) == \A i \in 1..Len(a) : a[i].key = IntKey(i)
OnlyNamed(a) == \A i \in 1..Len(a) : IsStr(a[i].key)
AsMapping(a) == {<<a[i].key, a[i].val>> : i \in 1..Len(a)}

\* strings that the wikitext syntax carries unchanged
HasBracketMarker(str) ==
    \E i \in 0..Len(str) :
        \/ MatchAt(str, LB, i) \/ MatchAt(str, RB, i)
        \/ MatchAt(str, LL, i) \/ MatchAt(str, RR, i)
PlainName(str) == ~Contains(str, "|") /\ ~HasBracketMarker(str)
PlainNumberedValue(str) ==
    ~Contains(str, "|") /\ ~Contains(str, "=") /\ ~HasBracketMarker(str)
PlainKey(str) ==
    ~Contains(str, "|") /\ ~Contains(str, "=") /\ ~HasBracketMarker(str) /\ Strip(str) = str
PlainNamedValue(str) == ~Contains(str, "|") /\ ~HasBracketMarker(str) /\ Strip(str) = str
PlainInput ==
    /\ PlainName(name)
    /\ \A i \in 1..Len(args) :
          IF IsInt(args[i].key) THEN PlainNumberedValue(args[i].val)
          ELSE PlainKey(args[i].key.s) /\ PlainNamedValue(args[i].val)

DenseFrom(a) == [k \in 1..SetMax(IntKeysOf(a)) |-> Par(IntKey(k), InputValue(a, k))]

\* C7 (as stated): numbered entries given out of increasing key order,
\* possibly among named entries, serialized in interleaved mode and parsed
\* back, have the integer keys 1..max, each once, index k with the input
\* value of key k (empty if none), and the named entries in their order.
C7_OutOfOrderRoundTrip ==
    (Reparsed /\ ~num_first /\ OutOfOrder(args)) =>
        /\ IntEntries(result.out.value.args) = DenseFrom(args)
        /\ Named(result.out.value.args) = Named(args)

\* C7 (amended): the same, for entries with distinct keys, a name without
\* "|" or bracket markers, numbered values without "|", "=" or bracket
\* markers, and named keys and values without "|", bracket markers or
\* surrounding whitespace (keys also without "=").
C7_PlainOutOfOrderRoundTrip ==
    (Reparsed /\ ~num_first /\ OutOfOrder(args) /\ PlainInput) =>
        /\ IntEntries(result.out.value.args) = DenseFrom(args)
        /\ Named(result.out.value.args) = Named(args)

C7_Witness ==
    /\ Reparsed
    /\ ~num_first
    /\ args = <<Par(IntKey(1), <<"a">>), Par(IntKey(3), <<>>), Par(IntKey(2), <<" ", "b">>)>>
    /\ result.out.value.args
          = <<Par(IntKey(1), <<"a">>), Par(IntKey(2), <<" ", "b">>), Par(IntKey(3), <<>>)>>

\* C8 (as stated): numbered entries with the keys 1..n in increasing order
\* come back from make_template and parse_template as the identical
\* sequence: the same keys, values and order.
C8_DenseRoundTrip ==
    (Reparsed /\ ~num_first /\ DenseInOrder(args)) => result.out.value.args = args

\* C8 (amended): the same, for a name without "|" or bracket markers and
\* values without "|", "=" or bracket markers.
C8_PlainDenseRoundTrip ==
    (Reparsed /\ ~num_first /\ DenseInOrder(args) /\ PlainInput) =>
        result.out.value.args = args

C8_Witness ==
    /\ Reparsed
    /\ ~num_first
    /\ args = <<Par(IntKey(1), <<"a">>), Par(IntKey(2), <<" ", "b">>), Par(IntKey(3), <<>>)>>
    /\ result.out.value.args = args

\* C9 (as stated): entries with named keys only come back from
\* make_template and parse_template with the same keys and values, in
\* interleaved and in numbered-first mode.
C9_NamedRoundTrip ==
    (Reparsed /\ OnlyNamed(args)) =>
        /\ AsMapping(result.out.value.args) = AsMapping(args)
        /\ Len(result.out.value.args) = Len(args)

\* C9 (amended): the same, for a name without "|" or bracket markers and
\* keys and values without "|", bracket markers or surrounding whitespace
\* (keys also without "=").
C9_PlainNamedRoundTrip ==
    (Reparsed /\ OnlyNamed(args) /\ PlainInput) =>
        /\ AsMapping(result.out.value.args) = AsMapping(args)
        /\ Len(result.out.value.args) = Len(args)

C9_Witness ==
    /\ Reparsed
    /\ num_first
    /\ args = <<Par(StrKey(<<"y">>), <<"=">>), Par(StrKey(<<"x">>), <<"a">>)>>
    /\ result.out.value.args = args

NumberedFirstText(nm, a) ==
    LET ks == Ascending(IntKeysOf(a))
    IN  LB \o nm
        \o Concat([i \in 1..Len(ks) |-> Pipe \o InputValue(a, ks[i])])
        \o Concat([i \in 1..Len(Named(a)) |-> Pipe \o Named(a)[i].key.s \o Eq \o Named(a)[i].val])
        \o RB

\* C10: in numbered-first mode, whatever the mix and order of numbered
\* and named entries, the result is {{name, then |value for every
\* numbered entry by ascending key, then |key=value for every named entry
\* in the given order, then }}.
C10_NumberedFirstOutput ==
    (Made /\ num_first) =>
        /\ result.raised = "none"
        /\ result.out = NumberedFirstText(name, args)

(***************************************************************************)
(* parse_heading applied to one line.                                      *)
(***************************************************************************)
MaxLineLen == 4
MaxTitleLen == 3

LineAlphabet == {"=", "a", " ", "\n"}
TitleAlphabet == {"=", "a", " "}

\* c * n
Repeat(c, n) == [i \in 1..n |-> c]

\* the line a heading of level k with the text t is written as
HeadingLine(k, t) == Repeat("=", k) \o t \o Repeat("=", k)

Titles == Strings(TitleAlphabet, MaxTitleLen)

MismatchedRunsText == <<"=", "=", "T", "i", "t", "l", "e", "=">>

HeadingLines ==
    Strings(LineAlphabet, MaxLineLen)
    \cup {HeadingLine(k, t) : k \in 1..MAXIMUM_HEADING_LEVEL, t \in Titles}
    \cup {MismatchedRunsText}

InitParseHeading ==
    /\ pc = "start"
    /\ op = "none"
    /\ text \in HeadingLines
    /\ replace_function = "none"
    /\ name = <<>>
    /\ args = <<>>
    /\ num_first = FALSE
    /\ result = NoResult
    /\ NoHeadingArguments
    /\ frame = NoFrame

DoParseHeading ==
    /\ Call("parse_heading", Returned(ParseHeading(text)))
    /\ UNCHANGED replace_function

NextParseHeading == DoParseHeading

SpecParseHeading == InitParseHeading /\ [][NextParseHeading]_vars

(***************************************************************************)
(* Properties of parse_heading.                                            *)
(***************************************************************************)
HeadingParsed == pc = "done" /\ op = "parse_heading"

\* t has two or more characters and begins and ends with "="
WrappedInEquals(t) == Len(t) >= 2 /\ t[1] = "=" /\ t[Len(t)] = "="

\* C11, as claimed: for every level k in 1..6 and every heading text t
\* without a newline, parse_heading applied to k "=", then t, then k "="
\* returns Heading(k, t trimmed).
C11_RenderedHeadingRoundTrip ==
    HeadingParsed =>
        \A k \in 1..MAXIMUM_HEADING_LEVEL, t \in Titles :
            text = HeadingLine(k, t) => result.out = Heading(k, Strip(t))

\* C11, amended: the same for every k and t except a t of two or more
\* characters that begins and ends with "=" under a level k below 6; there
\* the "=" of t lengthen both runs and the line is a heading of a deeper
\* level.
C11_UnambiguousHeadingRoundTrip ==
    HeadingParsed =>
        \A k \in 1..MAXIMUM_HEADING_LEVEL, t \in Titles :
            /\ text = HeadingLine(k, t)
            /\ ~(k < MAXIMUM_HEADING_LEVEL /\ WrappedInEquals(t))
            => result.out = Heading(k, Strip(t))

\* a rendered line of level 2 whose text had surrounding blanks, parsed back
C11_Witness ==
    /\ HeadingParsed
    /\ text = HeadingLine(2, <<" ", "a", " ">>)
    /\ result.out = Heading(2, <<"a">>)

\* the lengths of the runs of "=" a line begins and ends with
LeadingRun(s) == SetMax({n \in 0..Len(s) : \A i \in 1..n : s[i] = "="})
TrailingRun(s) == SetMax({n \in 0..Len(s) : \A i \in 1..n : s[Len(s) + 1 - i] = "="})

\* C12: parse_heading recognizes a line as a heading only when its leading
\* and trailing runs of "=" have the same length after capping at 6; a line
\* whose runs differ, such as ==Title=, gives None.
C12_UnequalRunsNotHeading ==
    HeadingParsed =>
        (result.out.kind = "Heading" =>
            Min2(LeadingRun(text), MAXIMUM_HEADING_LEVEL)
                = Min2(TrailingRun(text), MAXIMUM_HEADING_LEVEL))

(***************************************************************************)
(* Sections: the heading operations applied to a text of lines.            *)
(***************************************************************************)
Section(h, t) == [kind |-> "Section", heading |-> h, text |-> t]

\* an exception raised with a message, before anything was produced
RaisedWith(type, message) == [raised |-> type, out |-> <<>>, message |-> message]

\* str.splitlines(): the lines end at "\n", "\r" or "\r\n" (the other line
\* boundaries of Python do not occur in the texts), and no empty line
\* follows the last boundary
RECURSIVE SplitLines(_)
SplitLines(s) ==
    IF s = <<>> THEN <<>>
    ELSE LET hits == {i \in 1..Len(s) : s[i] \in {"\n", "\r"}}
         IN  IF hits = {} THEN <<s>>
             ELSE LET i == SetMin(hits)
                      j == IF s[i] = "\r" /\ i < Len(s) /\ s[i + 1] = "\n"
                           THEN i + 1 ELSE i
                  IN  <<SubSeq(s, 1, i - 1)>> \o SplitLines(SubSeq(s, j + 1, Len(s)))

\* str(n)
RECURSIVE StrNat(_)
StrNat(n) ==
    LET digits == <<"0", "1", "2", "3", "4", "5", "6", "7", "8", "9">>
    IN  IF n < 10 THEN <<digits[n + 1]>>
        ELSE StrNat(n \div 10) \o <<digits[(n % 10) + 1]>>

StrInt(n) == IF n < 0 THEN <<"-">> \o StrNat(0 - n) ELSE StrNat(n)

\* repr(s) of a string: quoted, the quote and the control characters escaped
Repr(s) ==
    LET q == IF Contains(s, "'") /\ ~Contains(s, "\"") THEN "\"" ELSE "'"
        escaped(c) == IF c = "\\" THEN <<"\\", "\\">>
                      ELSE IF c = "\n" THEN <<"\\", "n">>
                      ELSE IF c = "\r" THEN <<"\\", "r">>
                      ELSE IF c = "\t" THEN <<"\\", "t">>
                      ELSE IF c = q THEN <<"\\", c>>
                      ELSE <<c>>
    IN  <<q>> \o Concat([i \in 1..Len(s) |-> escaped(s[i])]) \o <<q>>

InvalidLevelMessage ==
    <<"i", "n", "v", "a", "l", "i", "d", " ", "v", "a", "l", "u", "e", " ",
      "f", "o", "r", " ", "h", "e", "a", "d", "i", "n", "g", " ", "l", "e",
      "v", "e", "l">>

\* f"heading ({level}, {repr(heading)}) was not found"
NotFoundMessage(lv, hd) ==
    <<"h", "e", "a", "d", "i", "n", "g", " ", "(">>
    \o StrInt(lv) \o <<",", " ">> \o Repr(hd) \o
    <<")", " ", "w", "a", "s", " ", "n", "o", "t", " ", "f", "o", "u", "n",
      "d">>

InvalidLevel(lv) == lv < 1 \/ lv > MAXIMUM_HEADING_LEVEL

ContainsHeading(t, lv, hd) ==
    IF InvalidLevel(lv) THEN RaisedWith("ValueError", InvalidLevelMessage)
    ELSE LET lines == SplitLines(RemoveExtra(t))
             matching == Repeat("=", lv)
         IN  Returned(\E i \in 1..Len(lines) :
                        LET line == RStrip(lines[i])
                        IN  /\ StartsWith(line, matching)
                            /\ EndsWith(line, matching)
                            /\ Strip(Slice(line, lv, 0 - lv)) = hd)

\* None for start_line and end_line
NoLine == -1

\* the loop over the lines, from line i (0-based)
RECURSIVE SectionBounds(_, _, _, _, _, _, _)
SectionBounds(lines, i, lv, hd, tp, start_line, end_line) ==
    IF i >= Len(lines) THEN [start_line |-> start_line, end_line |-> end_line]
    ELSE LET line == RStrip(lines[i + 1])
             h == ParseHeading(line)
         IN  IF h.kind = "Heading"
             THEN IF h.level = lv /\ h.text = hd
                  THEN SectionBounds(lines, i + 1, lv, hd, tp, i + 1, end_line)
                  ELSE IF (start_line # NoLine /\ tp) \/ h.level <= lv
                  THEN SectionBounds(lines, i + 1, lv, hd, tp, start_line, i)
                  ELSE SectionBounds(lines, i + 1, lv, hd, tp, start_line, end_line)
             ELSE SectionBounds(lines, i + 1, lv, hd, tp, start_line, end_line)

\* faulty variant of GetSectionText: a heading that is not found gives the
\* empty text
GetSectionTextOrEmpty(t, lv, hd, tp) ==
    IF InvalidLevel(lv) THEN RaisedWith("ValueError", InvalidLevelMessage)
    ELSE LET lines == SplitLines(RemoveExtra(t))
             b == SectionBounds(lines, 0, lv, hd, tp, NoLine, NoLine)
             end_line == IF b.end_line = NoLine THEN Len(lines) ELSE b.end_line
         IN  IF b.start_line # NoLine
             THEN Returned(Join(Slice(lines, b.start_line, end_line), <<"\n">>))
             ELSE Returned(<<>>)

GetSectionText(t, lv, hd, tp) ==
    IF InvalidLevel(lv) THEN RaisedWith("ValueError", InvalidLevelMessage)
    ELSE LET lines == SplitLines(RemoveExtra(t))
             b == SectionBounds(lines, 0, lv, hd, tp, NoLine, NoLine)
             end_line == IF b.end_line = NoLine THEN Len(lines) ELSE b.end_line
         IN  IF b.start_line # NoLine
             THEN Returned(Join(Slice(lines, b.start_line, end_line), <<"\n">>))
             ELSE RaisedWith("WikitextError", NotFoundMessage(lv, hd))

\* the loop over the lines, from line index (0-based): the sections yielded
RECURSIVE IterateHeadingsLoop(_, _, _, _, _)
IterateHeadingsLoop(lines, index, lv, lastindex, lasttitle) ==
    IF index >= Len(lines)
    THEN <<Section(Heading(lv, lasttitle),
                   Join(Slice(lines, lastindex + 1, Len(lines)), <<"\n">>))>>
    ELSE LET line == lines[index + 1]
             l2 == Repeat("=", lv)
             l3 == l2 \o <<"=">>
         IN  IF /\ StartsWith(line, l2)
                /\ ~StartsWith(line, l3)
                /\ EndsWith(line, l2)
                /\ ~EndsWith(line, l3)
             THEN <<Section(Heading(lv, lasttitle),
                            Join(Slice(lines, lastindex + 1, index), <<"\n">>))>>
                  \o IterateHeadingsLoop(lines, index + 1, lv, index,
                                         Strip(Slice(line, lv, 0 - lv)))
             ELSE IterateHeadingsLoop(lines, index + 1, lv, lastindex, lasttitle)

IterateHeadingsList(t, lv) ==
    IterateHeadingsLoop(SplitLines(RemoveExtra(t)), 0, lv, -1, NoneValue)

IterateHeadings(t, lv) == Returned(IterateHeadingsList(t, lv))

\* the nested loops of iterate_sections, from the loop of level lv down to
\* the loop of level 6
RECURSIVE NestedSections(_, _)
NestedSections(t, lv) ==
    LET sections == IterateHeadingsList(t, lv)
    IN  Concat([i \in 1..Len(sections) |->
                   <<sections[i]>>
                   \o IF lv < 6 THEN NestedSections(sections[i].text, lv + 1) ELSE <<>>])

IterateSections(t) == Returned(NestedSections(t, 1))

(***************************************************************************)
(* The heading operations applied to one text.                             *)
(***************************************************************************)
MaxSectionLines == 3

SectionLineKinds ==
    { <<>>,
      <<"x">>,
      <<"=", "Z", "=">>,
      <<"=", "=", "A", "=", "=">>,
      <<"=", "=", "B", "=", "=", " ">>,
      <<"=", "=", "=", "S", "=", "=", "=">>,
      <<"=", "=", "A", "=">>,
      CommentOpen \o <<"=", "=", "A", "=", "=">> \o CommentClose }

\* ==A==, x, ==B==, y, ==C==, z
LaterHeadingsText ==
    Join(<< <<"=", "=", "A", "=", "=">>, <<"x">>, <<"=", "=", "B", "=", "=">>, <<"y">>,
            <<"=", "=", "C", "=", "=">>, <<"z">> >>, <<"\n">>)

\* ==A==, x, ===S===, y, ==B==, z
SubsectionText ==
    Join(<< <<"=", "=", "A", "=", "=">>, <<"x">>, <<"=", "=", "=", "S", "=", "=", "=">>,
            <<"y">>, <<"=", "=", "B", "=", "=">>, <<"z">> >>, <<"\n">>)

SectionTexts ==
    {Join(lines, <<"\n">>) :
        lines \in UNION {[1..n -> SectionLineKinds] : n \in 0..MaxSectionLines}}
    \cup {LaterHeadingsText, SubsectionText}

Levels == 0..(MAXIMUM_HEADING_LEVEL + 1)
SoughtHeadings == {<<"A">>, <<"S">>}

InitSection ==
    /\ pc = "start"
    /\ op = "none"
    /\ text \in SectionTexts
    /\ replace_function = "none"
    /\ name = <<>>
    /\ args = <<>>
    /\ num_first = FALSE
    /\ result = NoResult
    /\ NoHeadingArguments
    /\ frame = NoFrame

\* a call of a heading operation with the arguments lv, hd and tp
CallHeading(fn, lv, hd, tp, res) ==
    /\ pc = "start"
    /\ pc' = "done"
    /\ op' = fn
    /\ arg_level' = lv
    /\ arg_heading' = hd
    /\ top' = tp
    /\ result' = res
    /\ UNCHANGED <<text, replace_function, name, args, num_first, frame>>

DoContainsHeading ==
    \E lv \in Levels, hd \in SoughtHeadings :
        CallHeading("contains_heading", lv, hd, FALSE, ContainsHeading(text, lv, hd))

DoGetSectionText ==
    \E lv \in Levels, hd \in SoughtHeadings, tp \in BOOLEAN :
        CallHeading("get_section_text", lv, hd, tp, GetSectionText(text, lv, hd, tp))

DoIterateHeadings ==
    \E lv \in Levels :
        CallHeading("iterate_headings", lv, <<>>, FALSE, IterateHeadings(text, lv))

DoIterateSections ==
    /\ Call("iterate_sections", IterateSections(text))
    /\ UNCHANGED replace_function

NextSection ==
    \/ DoParseHeading
    \/ DoContainsHeading
    \/ DoGetSectionText
    \/ DoIterateHeadings
    \/ DoIterateSections
    \/ DoParseWikitext

SpecSection == InitSection /\ [][NextSection]_vars

(***************************************************************************)
(* Properties of get_section_text.                                         *)
(***************************************************************************)
SectionTextCalled == pc = "done" /\ op = "get_section_text"

\* the lines of the comment-stripped text, and what each reads as once its
\* trailing whitespace is dropped
StrippedLines == SplitLines(RemoveExtra(text))
LineHeading(i) == ParseHeading(RStrip(StrippedLines[i]))
HeadingLineNumbers == {i \in 1..Len(StrippedLines) : LineHeading(i).kind = "Heading"}
MatchingLineNumbers ==
    {i \in HeadingLineNumbers : LineHeading(i) = Heading(arg_level, arg_heading)}

\* the heading lines that end the section begun at line first
EndingLineNumbers(first) ==
    {j \in HeadingLineNumbers :
        j > first /\ (top \/ LineHeading(j).level <= arg_level)}

\* the lines after the first matching heading line, up to the next line
\* that ends its section
SectionTextClaimed ==
    LET first == SetMin(MatchingLineNumbers)
        ending == EndingLineNumbers(first)
        last == IF ending = {} THEN Len(StrippedLines) ELSE SetMin(ending) - 1
    IN  Join(SubSeq(StrippedLines, first + 1, last), <<"\n">>)

\* C13: get_section_text returns the lines that follow the first heading
\* line matching (level, heading), up to but excluding the next later
\* heading line of a level <= level (top = FALSE) or of any level
\* (top = TRUE), or up to the end of the text; headings before the matched
\* one do not matter.
C13_SectionTextUpToNextHeading ==
    (SectionTextCalled /\ ~InvalidLevel(arg_level) /\ MatchingLineNumbers # {})
        => result = Returned(SectionTextClaimed)

\* whether the characters of part occur in s, in a row
ContainsText(s, part) == \E i \in 0..Len(s) : MatchAt(s, part, i)

\* C14: for a level in 1..6, get_section_text raises WikitextError, and
\* does not return a text, exactly when no line of the comment-stripped
\* text is a heading of the requested level and text; the error is of
\* another type than the usage error raised for a level outside 1..6, and
\* its message carries the level and the heading text sought.
C14_NotFoundRaises ==
    SectionTextCalled =>
        IF InvalidLevel(arg_level)
        THEN result.raised = "ValueError"
        ELSE /\ result.raised = "WikitextError" <=> MatchingLineNumbers = {}
             /\ result.raised \in {"WikitextError", "none"}
             /\ result.raised = "WikitextError" =>
                   /\ ContainsText(result.message, StrInt(arg_level))
                   /\ ContainsText(result.message, arg_heading)

\* the heading ==A== occurs only inside a comment and is not found
C14_Witness ==
    /\ SectionTextCalled
    /\ text = CommentOpen \o <<"=", "=", "A", "=", "=">> \o CommentClose
                \o <<"\n", "=", "=", "=", "S", "=", "=", "=">>
    /\ arg_level = 2
    /\ arg_heading = <<"A">>
    /\ result.raised = "WikitextError"

(***************************************************************************)
(* Properties of the heading levels.                                       *)
(***************************************************************************)
\* the Heading values in the result of the operation called
ProducedHeadings ==
    IF op = "parse_heading"
    THEN IF result.out.kind = "Heading" THEN {result.out} ELSE {}
    ELSE IF op \in {"iterate_headings", "iterate_sections"}
    THEN {result.out[i].heading : i \in 1..Len(result.out)}
    ELSE IF op = "parse_wikitext"
    THEN {result.out[i] : i \in {j \in 1..Len(result.out) : result.out[j].kind = "Heading"}}
    ELSE {}

TakesLevel == op \in {"contains_heading", "get_section_text", "iterate_headings"}

\* C15: every Heading produced by parse_heading, iterate_headings,
\* iterate_sections and parse_wikitext has a level in 1..6, and
\* contains_heading, get_section_text and iterate_headings reject a level
\* outside 1..6 with a usage error.
C15_HeadingLevelsInRange ==
    pc = "done" =>
        /\ \A h \in ProducedHeadings : h.level \in 1..MAXIMUM_HEADING_LEVEL
        /\ (TakesLevel /\ InvalidLevel(arg_level)) => result.raised = "ValueError"

(***************************************************************************)
(* _remove_extra applied to one text.                                      *)
(***************************************************************************)
MaxStripTokens == 4

StripTokens ==
    {CommentOpen, CommentClose, NowikiOpen, NowikiClose, <<"a">>, <<"-">>, <<"<">>, <<">">>}

\* A<!--hidden-->B
HiddenCommentText == <<"A">> \o CommentOpen \o <<"h", "i", "d", "d", "e", "n">>
                        \o CommentClose \o <<"B">>

\* <!--never closed
NeverClosedText == CommentOpen \o <<"n", "e", "v", "e", "r", " ", "c", "l", "o", "s", "e", "d">>

StripTexts ==
    {Concat(tokens) :
        tokens \in UNION {[1..n -> StripTokens] : n \in 0..MaxStripTokens}}
    \cup {HiddenCommentText, NeverClosedText}

InitStrip ==
    /\ pc = "start"
    /\ op = "none"
    /\ text \in StripTexts
    /\ replace_function = "none"
    /\ name = <<>>
    /\ args = <<>>
    /\ num_first = FALSE
    /\ result = NoResult
    /\ NoHeadingArguments
    /\ frame = NoFrame

DoRemoveExtra ==
    /\ Call("_remove_extra", Returned(RemoveExtra(text)))
    /\ UNCHANGED replace_function

NextStrip == DoRemoveExtra

SpecStrip == InitStrip /\ [][NextStrip]_vars

(***************************************************************************)
(* Properties of _remove_extra.                                            *)
(***************************************************************************)
Stripped == pc = "done" /\ op = "_remove_extra"

\* the opener at offset p of t, if one is there
IsOpenerAt(t, p) == MatchAt(t, CommentOpen, p) \/ MatchAt(t, NowikiOpen, p)
OpenerAt(t, p) == IF MatchAt(t, CommentOpen, p) THEN CommentOpen ELSE NowikiOpen
CloserOf(opener) == IF opener = CommentOpen THEN CommentClose ELSE NowikiClose

\* the offset after the span opened at p: after the first closer that
\* follows the opener, or the end of the text
SpanEndClaimed(t, p) ==
    LET closer == CloserOf(OpenerAt(t, p))
        closers == {q \in (p + Len(OpenerAt(t, p)))..Len(t) : MatchAt(t, closer, q)}
    IN  IF closers = {} THEN Len(t) ELSE SetMin(closers) + Len(closer)

\* the offsets where a removed span begins: the openers that lie in no
\* span begun before them
SpanStarts(t) ==
    LET begins[p \in 0..Len(t)] ==
            /\ IsOpenerAt(t, p)
            /\ \A q \in 0..(p - 1) : begins[q] => SpanEndClaimed(t, q) <= p
    IN  {p \in 0..Len(t) : begins[p]}

RemovedOffsets(t) ==
    LET starts == SpanStarts(t)
        spans == {<<q, SpanEndClaimed(t, q)>> : q \in starts}
    IN  {p \in 0..(Len(t) - 1) : \E span \in spans : span[1] <= p /\ p < span[2]}

\* the characters of t at the offsets that are not removed, in order
KeptText(t) ==
    LET removed == RemovedOffsets(t)
        kept[n \in 0..Len(t)] ==
            IF n = 0 THEN <<>>
            ELSE IF (n - 1) \in removed THEN kept[n - 1]
            ELSE Append(kept[n - 1], t[n])
    IN  kept[Len(t)]

\* C16: _remove_extra removes, for the earliest <!-- or <nowiki> at or
\* after the cursor, everything from the opener through the first following
\* --> (or </nowiki>), or through the end of the text when that closer
\* never comes, and leaves all other characters unchanged and in order;
\* A<!--hidden-->B gives AB and <!--never closed gives the empty text.
C16_RemovesEscapeSpans ==
    Stripped =>
        /\ result.out = KeptText(text)
        /\ text = HiddenCommentText => result.out = <<"A", "B">>
        /\ text = NeverClosedText => result.out = <<>>

\* a comment between two characters removed, closer included
C16_Witness ==
    /\ Stripped
    /\ text = HiddenCommentText
    /\ result.out = <<"A", "B">>

(***************************************************************************)
(* make_template in interleaved mode, one loop iteration at a time.  The   *)
(* frame holds the locals of the call: the argument list args is bound to, *)
(* the offset i of the entry the for loop takes next, argstr and argindx;  *)
(* rebuilt records whether the argument list has been rebuilt.             *)
(***************************************************************************)
InterleavedKeys ==
    {IntKey(-1), IntKey(0), IntKey(1), IntKey(2), IntKey(3), StrKey(<<"x">>)}
InterleavedValues == {<<"a">>, <<"b">>}

InterleavedArgLists ==
    UNION {[1..n -> [key : InterleavedKeys, val : InterleavedValues]] : n \in 0..MaxArgs}

InitInterleaved ==
    /\ pc = "start"
    /\ op = "none"
    /\ text = <<>>
    /\ replace_function = "none"
    /\ name = <<"t">>
    /\ args \in InterleavedArgLists
    /\ num_first = FALSE
    /\ result = NoResult
    /\ NoHeadingArguments
    /\ frame = NoFrame

\* the emission loop (re)started over the argument list a
Restart(a, rebuilt) ==
    [args |-> a, i |-> 0, argstr |-> <<>>, argindx |-> 0, rebuilt |-> rebuilt]

AtEntry == pc = "emit" /\ frame.i < Len(frame.args)
CurrentKey == frame.args[frame.i + 1].key
CurrentValue == frame.args[frame.i + 1].val

\* a step of the loop that changes the locals only
Step(next) ==
    /\ frame' = next
    /\ UNCHANGED <<pc, op, text, replace_function, name, args, num_first, result,
                   arg_level, arg_heading, top>>

EnterInterleaved ==
    /\ pc = "start"
    /\ pc' = "emit"
    /\ op' = "make_template"
    /\ frame' = Restart(args, FALSE)
    /\ UNCHANGED <<text, replace_function, name, args, num_first, result,
                   arg_level, arg_heading, top>>

EmitNamed ==
    /\ AtEntry
    /\ IsStr(CurrentKey)
    /\ Step([frame EXCEPT !.i = @ + 1,
                          !.argstr = @ \o NamedArg(CurrentKey.s, CurrentValue)])

EmitNumbered ==
    /\ AtEntry
    /\ IsInt(CurrentKey)
    /\ CurrentKey.n > frame.argindx
    /\ Step([frame EXCEPT !.i = @ + 1,
                          !.argindx = CurrentKey.n,
                          !.argstr = @ \o NumberedArg(CurrentValue)])

SkipRepeated ==
    /\ AtEntry
    /\ IsInt(CurrentKey)
    /\ CurrentKey.n = frame.argindx
    /\ Step([frame EXCEPT !.i = @ + 1])

\* the reconciliation pass, the break and the restart of the while loop
ReconcileArgs ==
    /\ AtEntry
    /\ IsInt(CurrentKey)
    /\ CurrentKey.n < frame.argindx
    /\ Step(Restart(Reconcile(frame.args), TRUE))

ReturnInterleaved ==
    /\ pc = "emit"
    /\ frame.i = Len(frame.args)
    /\ pc' = "made"
    /\ result' = Returned(LB \o name \o frame.argstr \o RB)
    /\ UNCHANGED <<op, text, replace_function, name, args, num_first,
                   arg_level, arg_heading, top, frame>>

NextInterleaved ==
    \/ EnterInterleaved
    \/ EmitNamed
    \/ EmitNumbered
    \/ SkipRepeated
    \/ ReconcileArgs
    \/ ReturnInterleaved

\* the call keeps running until it returns
SpecInterleaved ==
    InitInterleaved /\ [][NextInterleaved]_vars /\ WF_vars(NextInterleaved)

(***************************************************************************)
(* Properties of the interleaved emission.                                 *)
(***************************************************************************)
\* once the argument list is rebuilt, the loop meets no integer key below
\* the highest positional key emitted
RebuiltKeysInOrder ==
    (AtEntry /\ frame.rebuilt) => ~(IsInt(CurrentKey) /\ CurrentKey.n < frame.argindx)

\* the stepwise run returns what the loop taken as a whole returns
InterleavedAgrees ==
    pc = "made" => result = MakeTemplate(name, args, FALSE)

\* C17: make_template in interleaved mode terminates for every argument
\* list with string and integer keys, and the reconciliation pass runs at
\* most once per call: after the rebuild the restarted loop never again
\* meets an integer key smaller than the highest positional key emitted.
C17_TerminatesReconcilingOnce ==
    /\ []RebuiltKeysInOrder
    /\ <>(pc = "made")

\* a call that rebuilt the list (2, 1) once and returned
C17_Witness ==
    /\ pc = "made"
    /\ frame.rebuilt
    /\ args = <<Par(IntKey(2), <<"b">>), Par(IntKey(1), <<"a">>)>>
    /\ result.out = LB \o <<"t", "|", "a", "|", "b">> \o RB

====
